---- MODULE Spec2Model ----
(***************************************************************************)
(* PDController of src/uuv_mission/control.py: a discrete-time             *)
(* proportional-derivative controller,                                     *)
(*     u[t] = KP*e[t] + KD*(e[t] - e[t-1])/dt,  e[t] = r[t] - y[t].        *)
(*                                                                         *)
(* Numbers.  The controller's floats are modelled as exact rationals, a    *)
(* pair <<n, d>> in lowest terms with d > 0: finite values, no rounding,   *)
(* no overflow.  Every arithmetic operator below computes on the pair.     *)
(***************************************************************************)
EXTENDS Integers

VARIABLES
    ctrl,      \* the controller driven by one sequential caller
    last,      \* the caller's most recent operation: arguments and outcome
    given,     \* the gains handed to the constructor of ctrl
    shadow,    \* the same run with the failed calls left out
    twin,      \* a controller constructed anew wherever ctrl is reset
    errOk,     \* r - y of the latest successful call since new/reset
    insts,     \* two controllers, each with its own caller
    solo,      \* each of the two as run alone on its own operations
    lastP,     \* the most recent operation on either of the two, and the
               \* other controller as it was before it
    full,      \* a controller stepped with dt
    halved,    \* a controller stepped with dt/2 on the same r, y
    lastS,     \* the most recent step of the two
    obj,       \* one controller called from two threads
    thr,       \* each thread's place in __call__ and its locals
    start,     \* obj as it was before either thread called
    writes,    \* how many times line 52 has run
    overlap    \* whether a call began while another was under way

varsSeq == <<ctrl, last, given, shadow, twin, errOk>>
varsPair == <<insts, solo, lastP>>
varsScale == <<full, halved, lastS>>
varsRace == <<obj, thr, start, writes, overlap>>
vars == <<varsSeq, varsPair, varsScale, varsRace>>

\* The value of a variable the specification at hand does not use.
Idle == "idle"
IdleSeq ==
    /\ ctrl = Idle /\ last = Idle /\ given = Idle
    /\ shadow = Idle /\ twin = Idle /\ errOk = Idle
IdlePair == insts = Idle /\ solo = Idle /\ lastP = Idle
IdleScale == full = Idle /\ halved = Idle /\ lastS = Idle
IdleRace ==
    /\ obj = Idle /\ thr = Idle /\ start = Idle
    /\ writes = Idle /\ overlap = Idle

\* ------------------------------------------------------------------ bounds
\* Inputs r_t, y_t range over k/2 for k in 0..MaxIn.
MaxIn == 1

\* ------------------------------------------------------- rational numbers
Abs(n) == IF n < 0 THEN -n ELSE n

RECURSIVE GCD(_, _)
GCD(a, b) == IF b = 0 THEN a ELSE GCD(b, a % b)

\* n/d in lowest terms with a positive denominator (d # 0)
Norm(n, d) ==
    LET g == GCD(Abs(n), Abs(d))
        s == IF d < 0 THEN -1 ELSE 1
    IN  <<(s * n) \div g, (s * d) \div g>>

Zero == <<0, 1>>
One == <<1, 1>>
Half == <<1, 2>>
Two == <<2, 1>>
MinusOne == <<-1, 1>>

RAdd(a, b) == Norm(a[1] * b[2] + b[1] * a[2], a[2] * b[2])
RSub(a, b) == Norm(a[1] * b[2] - b[1] * a[2], a[2] * b[2])
RMul(a, b) == Norm(a[1] * b[1], a[2] * b[2])
\* a / b for b # 0
RDiv(a, b) == Norm(a[1] * b[2], a[2] * b[1])
RLeq(a, b) == a[1] * b[2] <= b[1] * a[2]

\* ------------------------------------------------------------ the class
\* Field defaults of the dataclass.
DefaultKP == <<3, 20>>
DefaultKD == <<3, 5>>
DefaultEPrev == Zero

\* The generated __init__: one instance attribute per field.
PDController(KP, KD, e_prev) == [KP |-> KP, KD |-> KD, e_prev |-> e_prev]

\* The marker of "no value": an argument left out, the result of a call
\* that raised.
NoValue == <<0, 0>>

\* A keyword argument, or the field's default when it is left out.
ArgOr(arg, default) == IF arg = NoValue THEN default ELSE arg

\* new(KP?, KD?): the gains are given or defaulted, e_prev is defaulted.
New(KP, KD) ==
    PDController(ArgOr(KP, DefaultKP), ArgOr(KD, DefaultKD), DefaultEPrev)

\* A reset that re-runs the initialiser with no arguments: it clears e_prev
\* but also puts the gains back to their defaults.
ResetReinit(self) == PDController(DefaultKP, DefaultKD, DefaultEPrev)

\* A reset that forgets to clear the state.
ResetNoop(self) == self

\* reset(): self.e_prev = 0.0
Reset(self) == [self EXCEPT !.e_prev = Zero]

\* line 40: e_t = r_t - y_t
Error(r_t, y_t) == RSub(r_t, y_t)

\* line 42: if dt <= 0
DtInvalid(dt) == RLeq(dt, Zero)

\* The derivative taken backwards.
DerivSwapped(self, e_t, dt) == RDiv(RSub(self.e_prev, e_t), dt)

\* The difference multiplied by the step instead of divided by it.
DerivTimes(self, e_t, dt) == RMul(RSub(e_t, self.e_prev), dt)

\* line 46: deriv = (e_t - self.e_prev) / dt
Deriv(self, e_t, dt) == RDiv(RSub(e_t, self.e_prev), dt)

\* The control law with the two gains exchanged.
ControlLawSwapped(self, e_t, deriv) ==
    RAdd(RMul(self.KD, e_t), RMul(self.KP, deriv))

\* line 49: u_t = self.KP * e_t + self.KD * deriv
ControlLaw(self, e_t, deriv) ==
    RAdd(RMul(self.KP, e_t), RMul(self.KD, deriv))

\* line 52: self.e_prev = e_t
StoreError(self, e_t) == [self EXCEPT !.e_prev = e_t]

\* __call__ with the state update moved above the dt check.
CallStoreFirst(self, r_t, y_t, dt) ==
    LET e_t == Error(r_t, y_t)
    IN  IF DtInvalid(dt)
        THEN [self |-> StoreError(self, e_t), exc |-> "ValueError",
              ret |-> NoValue]
        ELSE [self |-> StoreError(self, e_t), exc |-> "none",
              ret |-> ControlLaw(self, e_t, Deriv(self, e_t, dt))]

\* __call__ that never updates e_prev.
CallNoStore(self, r_t, y_t, dt) ==
    LET e_t == Error(r_t, y_t)
    IN  IF DtInvalid(dt)
        THEN [self |-> self, exc |-> "ValueError", ret |-> NoValue]
        ELSE [self |-> self, exc |-> "none",
              ret |-> ControlLaw(self, e_t, Deriv(self, e_t, dt))]

\* __call__(r_t, y_t, dt): the controller afterwards, the exception raised
\* ("none" when it returns) and the value returned.
Call(self, r_t, y_t, dt) ==
    LET e_t == Error(r_t, y_t)
    IN  IF DtInvalid(dt)
        THEN [self |-> self, exc |-> "ValueError", ret |-> NoValue]
        ELSE LET deriv == Deriv(self, e_t, dt)
                 u_t == ControlLaw(self, e_t, deriv)
             IN  [self |-> StoreError(self, e_t), exc |-> "none",
                  ret |-> u_t]

\* ---------------------------------------------------------------- inputs
Inputs == {Norm(k, 2) : k \in 0..MaxIn}
DtValues == {MinusOne, Zero, Half, One, Two}
\* What the caller passes for a gain: a value, or nothing.
GainArgs == {Zero, Half, NoValue}

\* ------------------------------------------- one caller, one controller
NoCall == [r |-> NoValue, y |-> NoValue, dt |-> NoValue]

InitSeq ==
    \E kp \in GainArgs, kd \in GainArgs :
        /\ ctrl = New(kp, kd)
        /\ given = [KP |-> kp, KD |-> kd]
        /\ shadow = [c |-> New(kp, kd), ret |-> NoValue]
        /\ twin = [c |-> New(kp, kd), ret |-> NoValue, byReset |-> FALSE]
        /\ errOk = NoValue
        /\ last = [op |-> "new", after |-> "none", afterExc |-> "none",
                   args |-> NoCall,
                   pre |-> New(kp, kd), exc |-> "none", ret |-> NoValue]

\* The caller discards the controller and constructs a new one.
SeqNew ==
    \E kp \in GainArgs, kd \in GainArgs :
        /\ ctrl' = New(kp, kd)
        /\ given' = [KP |-> kp, KD |-> kd]
        /\ shadow' = [c |-> New(kp, kd), ret |-> NoValue]
        /\ twin' = [c |-> New(kp, kd), ret |-> NoValue, byReset |-> FALSE]
        /\ errOk' = NoValue
        /\ last' = [op |-> "new", after |-> last.op, afterExc |-> last.exc,
                    args |-> NoCall,
                    pre |-> ctrl, exc |-> "none", ret |-> NoValue]
        /\ UNCHANGED <<varsPair, varsScale, varsRace>>

\* controller.reset()
SeqReset ==
    /\ ctrl' = Reset(ctrl)
    /\ shadow' = [c |-> Reset(shadow.c), ret |-> NoValue]
    /\ twin' = [c |-> New(ctrl.KP, ctrl.KD), ret |-> NoValue,
                byReset |-> TRUE]
    /\ errOk' = NoValue
    /\ last' = [op |-> "reset", after |-> last.op, afterExc |-> last.exc,
                args |-> NoCall,
                pre |-> ctrl, exc |-> "none", ret |-> NoValue]
    /\ UNCHANGED given
    /\ UNCHANGED <<varsPair, varsScale, varsRace>>

\* controller(r_t, y_t, dt)
SeqCall ==
    \E r_t \in Inputs, y_t \in Inputs, dt \in DtValues :
        LET res == Call(ctrl, r_t, y_t, dt)
            sh == Call(shadow.c, r_t, y_t, dt)
            tw == Call(twin.c, r_t, y_t, dt)
        IN  /\ ctrl' = res.self
            /\ shadow' = IF dt[1] <= 0 THEN shadow
                         ELSE [c |-> sh.self, ret |-> sh.ret]
            /\ twin' = [twin EXCEPT !.c = tw.self, !.ret = tw.ret]
            /\ errOk' = IF dt[1] <= 0 THEN errOk ELSE RSub(r_t, y_t)
            /\ last' = [op |-> "call", after |-> last.op,
                        afterExc |-> last.exc,
                        args |-> [r |-> r_t, y |-> y_t, dt |-> dt],
                        pre |-> ctrl, exc |-> res.exc, ret |-> res.ret]
            /\ UNCHANGED given
            /\ UNCHANGED <<varsPair, varsScale, varsRace>>

Init == InitSeq /\ IdlePair /\ IdleScale /\ IdleRace
Next == SeqNew \/ SeqReset \/ SeqCall
Spec == Init /\ [][Next]_vars

\* ------------------------------------------------ claims, one controller
\* What the latest call worked on.
LastErr == RSub(last.args.r, last.args.y)
LastOk == last.op = "call" /\ last.exc = "none"
LastFailed == last.op = "call" /\ last.exc = "ValueError"

\* C1: a call with dt <= 0 raises ValueError and leaves KP, KD and e_prev as
\* they were; the controller and the values it returns stay those of the
\* same run with the failed calls left out.
C1_FailedCallLeavesNoTrace ==
    /\ (last.op = "call" /\ last.args.dt[1] <= 0) =>
           /\ last.exc = "ValueError"
           /\ last.ret = NoValue
           /\ ctrl = last.pre
    /\ ctrl = shadow.c
    /\ LastOk => last.ret = shadow.ret

\* A valid call straight after a failed one, on a state that matters.
C1_Witness ==
    /\ LastOk
    /\ last.after = "call" /\ last.afterExc = "ValueError"
    /\ last.pre.e_prev # Zero
    /\ last.pre.KD # Zero

\* C2 as stated: e_prev is r - y of the latest call, or 0.0 when the latest
\* operation is a construction or a reset.
C2_PrevErrorOfLatestCall ==
    ctrl.e_prev = IF last.op = "call" THEN LastErr ELSE Zero

\* C2 amended: e_prev is r - y of the latest successful call since the
\* controller was constructed or reset, or 0.0 when there is none.
C2_PrevErrorOfLatestSuccess ==
    ctrl.e_prev = IF errOk = NoValue THEN Zero ELSE errOk

\* A failed call whose error is not the one carried.
C2_Witness ==
    /\ LastFailed
    /\ errOk # NoValue
    /\ errOk # Zero
    /\ errOk # LastErr

\* C3: a call with dt > 0 returns KP*(r - y) + KD*((r - y) - e_prev)/dt and
\* sets e_prev to r - y.
C3_PDLaw ==
    (last.op = "call" /\ last.args.dt[1] > 0) =>
        /\ last.exc = "none"
        /\ last.ret =
               RAdd(RMul(last.pre.KP, LastErr),
                    RDiv(RMul(last.pre.KD, RSub(LastErr, last.pre.e_prev)),
                         last.args.dt))
        /\ ctrl.e_prev = LastErr
        /\ ctrl.KP = last.pre.KP /\ ctrl.KD = last.pre.KD

\* A successful call in which every term of the law counts.
C3_Witness ==
    /\ LastOk
    /\ last.pre.KP # Zero /\ last.pre.KD # Zero
    /\ last.pre.e_prev # Zero
    /\ LastErr # Zero /\ LastErr # last.pre.e_prev
    /\ last.args.dt = Half

\* C4: the first call after a construction or a reset, with dt = 1, returns
\* KP*(r - y) + KD*(r - y).
C4_FreshUnitStep ==
    (last.op = "call" /\ last.args.dt = One
        /\ last.after \in {"new", "reset"}) =>
        /\ last.exc = "none"
        /\ last.ret = RAdd(RMul(last.pre.KP, LastErr),
                           RMul(last.pre.KD, LastErr))

\* The first call after a reset, with a nonzero error and default gains.
C4_Witness ==
    /\ LastOk
    /\ last.args.dt = One
    /\ last.after = "reset"
    /\ twin.byReset
    /\ LastErr # Zero
    /\ last.pre.KP = DefaultKP /\ last.pre.KD = DefaultKD

\* C5: a reset straight after a reset changes nothing, and from a reset on
\* the controller and the values it returns are those of a controller
\* constructed anew with the same gains.
C5_ResetRestoresFresh ==
    /\ (last.op = "reset" /\ last.after = "reset") => ctrl = last.pre
    /\ last.op = "reset" => ctrl = New(last.pre.KP, last.pre.KD)
    /\ ctrl = twin.c
    /\ last.op = "call" => last.ret = twin.ret

\* The second of two calls made after a reset.
C5_Witness ==
    /\ twin.byReset
    /\ LastOk
    /\ last.after = "call" /\ last.afterExc = "none"
    /\ last.pre.e_prev # Zero
    /\ last.pre.KD # Zero

\* C6: with KD = 0 a successful call returns KP*e_t; with KP = 0 it returns
\* KD*(e_t - e_prev)/dt.
C6_GainZero ==
    LastOk =>
        /\ last.pre.KD = Zero => last.ret = RMul(last.pre.KP, LastErr)
        /\ last.pre.KP = Zero =>
               last.ret =
                   RDiv(RMul(last.pre.KD, RSub(LastErr, last.pre.e_prev)),
                        last.args.dt)

\* KD = 0 with a previous error and a step that would otherwise count.
C6_Witness ==
    /\ LastOk
    /\ last.pre.KD = Zero /\ last.pre.KP # Zero
    /\ last.pre.e_prev # Zero
    /\ LastErr # Zero /\ LastErr # last.pre.e_prev
    /\ last.args.dt = Half

\* C7: the gains are those of the construction (0.15 and 0.6 where none was
\* passed), whatever calls and resets followed.
C7_GainsFixed ==
    /\ ctrl.KP = IF given.KP = NoValue THEN <<3, 20>> ELSE given.KP
    /\ ctrl.KD = IF given.KD = NoValue THEN <<3, 5>> ELSE given.KD
    /\ last.op \in {"call", "reset"} =>
           ctrl.KP = last.pre.KP /\ ctrl.KD = last.pre.KD

\* A reset after a failed call, the gains passed at construction.
C7_Witness ==
    /\ last.op = "reset"
    /\ last.after = "call" /\ last.afterExc = "ValueError"
    /\ given.KP = Half /\ given.KD = Zero
    /\ last.pre.e_prev # Zero

\* ------------------------------------------- two controllers, two callers
Inst == {"depth", "pitch"}
Other(i) == CHOOSE j \in Inst : j # i

\* e_prev kept on the class: assigning it through one instance is seen
\* through every instance.
SetClassAttr(objs, i, c) ==
    [j \in DOMAIN objs |->
        IF j = i THEN c ELSE [objs[j] EXCEPT !.e_prev = c.e_prev]]

\* The fields are instance attributes: an assignment through instance i
\* changes instance i and nothing else.
SetInstance(objs, i, c) == [objs EXCEPT ![i] = c]

\* The gains each of the two is constructed with.
PairGains == {<<NoValue, NoValue>>, <<Zero, Half>>}

InitPair ==
    \E g \in [Inst -> PairGains] :
        /\ insts = [i \in Inst |-> New(g[i][1], g[i][2])]
        /\ solo = [i \in Inst |->
                      [c |-> New(g[i][1], g[i][2]), ret |-> NoValue]]
        /\ lastP = [inst |-> "none", op |-> "new", exc |-> "none",
                    ret |-> NoValue, otherPre |-> NoValue]

\* insts[i].reset()
PairReset(i) ==
    /\ insts' = SetInstance(insts, i, Reset(insts[i]))
    /\ solo' = [solo EXCEPT ![i] = [c |-> Reset(solo[i].c), ret |-> NoValue]]
    /\ lastP' = [inst |-> i, op |-> "reset", exc |-> "none",
                 ret |-> NoValue, otherPre |-> insts[Other(i)]]
    /\ UNCHANGED <<varsSeq, varsScale, varsRace>>

\* insts[i](r_t, y_t, dt)
PairCall(i) ==
    \E r_t \in Inputs, y_t \in Inputs, dt \in DtValues :
        LET res == Call(insts[i], r_t, y_t, dt)
            alone == Call(solo[i].c, r_t, y_t, dt)
        IN  /\ insts' = SetInstance(insts, i, res.self)
            /\ solo' = [solo EXCEPT
                           ![i] = [c |-> alone.self, ret |-> alone.ret]]
            /\ lastP' = [inst |-> i, op |-> "call", exc |-> res.exc,
                         ret |-> res.ret, otherPre |-> insts[Other(i)]]
            /\ UNCHANGED <<varsSeq, varsScale, varsRace>>

NextPair == \E i \in Inst : PairReset(i) \/ PairCall(i)
InitP == IdleSeq /\ InitPair /\ IdleScale /\ IdleRace
SpecPair == InitP /\ [][NextPair]_vars

\* C9: under every interleaving each of the two controllers, and what its
\* calls return, is what its own operations alone produce; an operation on
\* one leaves the other's KP, KD and e_prev as they were.
C9_InstancesShareNothing ==
    /\ \A i \in Inst : insts[i] = solo[i].c
    /\ lastP.inst \in Inst =>
           /\ lastP.ret = solo[lastP.inst].ret
           /\ insts[Other(lastP.inst)] = lastP.otherPre

\* A successful call on one controller while the other carries a different,
\* nonzero previous error.
C9_Witness ==
    /\ lastP.inst = "depth" /\ lastP.op = "call" /\ lastP.exc = "none"
    /\ insts["pitch"].e_prev # Zero
    /\ insts["depth"].e_prev # Zero
    /\ insts["depth"].e_prev # insts["pitch"].e_prev

\* --------------------------------- the same run at dt and at half of dt
StepValues == {dt \in DtValues : ~DtInvalid(dt)}

InitScale ==
    \E kp \in GainArgs, kd \in GainArgs :
        /\ full = New(kp, kd)
        /\ halved = New(kp, kd)
        /\ lastS = [op |-> "new", r |-> NoValue, y |-> NoValue,
                    dt |-> NoValue, pre |-> New(kp, kd),
                    uFull |-> NoValue, uHalved |-> NoValue]

\* Both controllers are reset.
ScaleReset ==
    /\ full' = Reset(full)
    /\ halved' = Reset(halved)
    /\ lastS' = [op |-> "reset", r |-> NoValue, y |-> NoValue,
                 dt |-> NoValue, pre |-> full,
                 uFull |-> NoValue, uHalved |-> NoValue]
    /\ UNCHANGED <<varsSeq, varsPair, varsRace>>

\* Both controllers are called on the same r_t, y_t: one with dt, the
\* other with dt/2.
ScaleCall ==
    \E r_t \in Inputs, y_t \in Inputs, dt \in StepValues :
        LET f == Call(full, r_t, y_t, dt)
            h == Call(halved, r_t, y_t, RDiv(dt, Two))
        IN  /\ full' = f.self
            /\ halved' = h.self
            /\ lastS' = [op |-> "call", r |-> r_t, y |-> y_t, dt |-> dt,
                         pre |-> full, uFull |-> f.ret, uHalved |-> h.ret]
            /\ UNCHANGED <<varsSeq, varsPair, varsRace>>

InitS == IdleSeq /\ IdlePair /\ InitScale /\ IdleRace
NextScale == ScaleReset \/ ScaleCall
SpecScale == InitS /\ [][NextScale]_vars

\* The proportional term of the latest step, and what is left of an output
\* once it is taken out: the derivative term.
ScaleErr == RSub(lastS.r, lastS.y)
PropTerm == RMul(lastS.pre.KP, ScaleErr)
DerivTermOf(u) == RSub(u, PropTerm)

\* C8: driven by the same r, y, the run at dt and the run at dt/2 carry the
\* same e_prev, and at every step the derivative term of the dt/2 run is
\* twice that of the dt run, which is KD*(e_t - e_prev)/dt.
C8_HalvingDtDoublesDerivative ==
    /\ full = halved
    /\ lastS.op = "call" =>
           /\ full.e_prev = ScaleErr
           /\ DerivTermOf(lastS.uHalved) =
                  RMul(Two, DerivTermOf(lastS.uFull))
           /\ DerivTermOf(lastS.uFull) =
                  RDiv(RMul(lastS.pre.KD,
                            RSub(ScaleErr, lastS.pre.e_prev)), lastS.dt)

\* A step at dt = 1 against dt = 1/2 with a derivative term that is not 0.
C8_Witness ==
    /\ lastS.op = "call"
    /\ lastS.dt = One
    /\ lastS.pre.e_prev # Zero
    /\ DerivTermOf(lastS.uFull) # Zero
    /\ PropTerm # Zero

\* ------------------------------ one controller called from two threads
\* Each thread makes one call; a step is one line of __call__ (lines 40 to
\* 43, which touch only arguments and locals, are one step).
Thread == {"t1", "t2"}
Peer(t) == CHOOSE u \in Thread : u # t

Locals == [pc |-> "idle", args |-> NoCall, e_t |-> NoValue,
           deriv |-> NoValue, u_t |-> NoValue, exc |-> "none",
           ret |-> NoValue, sawWrites |-> 0]

InitRace ==
    \E kp \in GainArgs, kd \in GainArgs :
        /\ obj = New(kp, kd)
        /\ start = New(kp, kd)
        /\ thr = [t \in Thread |-> Locals]
        /\ writes = 0
        /\ overlap = FALSE

\* lines 40-43: e_t = r_t - y_t; if dt <= 0: raise ValueError
RaceEnter(t) ==
    /\ thr[t].pc = "idle"
    /\ \E r_t \in Inputs, y_t \in Inputs, dt \in DtValues :
           thr' = [thr EXCEPT ![t] =
                      [@ EXCEPT !.args = [r |-> r_t, y |-> y_t, dt |-> dt],
                                !.e_t = Error(r_t, y_t),
                                !.exc = IF DtInvalid(dt) THEN "ValueError"
                                        ELSE "none",
                                !.pc = IF DtInvalid(dt) THEN "done"
                                       ELSE "l46"]]
    /\ overlap' = (overlap \/ thr[Peer(t)].pc \notin {"idle", "done"})
    /\ UNCHANGED <<obj, start, writes>>
    /\ UNCHANGED <<varsSeq, varsPair, varsScale>>

\* Line 46 reading a copy of e_prev taken before the calls began.
RaceL46Stale(t) ==
    /\ thr[t].pc = "l46"
    /\ thr' = [thr EXCEPT ![t] =
                  [@ EXCEPT !.deriv = Deriv(start, thr[t].e_t, thr[t].args.dt),
                            !.sawWrites = writes,
                            !.pc = "l49"]]
    /\ UNCHANGED <<obj, start, writes, overlap>>
    /\ UNCHANGED <<varsSeq, varsPair, varsScale>>

\* line 46: deriv = (e_t - self.e_prev) / dt    (reads self.e_prev)
RaceL46(t) ==
    /\ thr[t].pc = "l46"
    /\ thr' = [thr EXCEPT ![t] =
                  [@ EXCEPT !.deriv = Deriv(obj, thr[t].e_t, thr[t].args.dt),
                            !.sawWrites = writes,
                            !.pc = "l49"]]
    /\ UNCHANGED <<obj, start, writes, overlap>>
    /\ UNCHANGED <<varsSeq, varsPair, varsScale>>

\* line 49: u_t = self.KP * e_t + self.KD * deriv
RaceL49(t) ==
    /\ thr[t].pc = "l49"
    /\ thr' = [thr EXCEPT ![t] =
                  [@ EXCEPT !.u_t = ControlLaw(obj, thr[t].e_t, thr[t].deriv),
                            !.pc = "l52"]]
    /\ UNCHANGED <<obj, start, writes, overlap>>
    /\ UNCHANGED <<varsSeq, varsPair, varsScale>>

\* line 52: self.e_prev = e_t    (writes self.e_prev)
RaceL52(t) ==
    /\ thr[t].pc = "l52"
    /\ obj' = StoreError(obj, thr[t].e_t)
    /\ writes' = writes + 1
    /\ thr' = [thr EXCEPT ![t] = [@ EXCEPT !.pc = "l54"]]
    /\ UNCHANGED <<start, overlap>>
    /\ UNCHANGED <<varsSeq, varsPair, varsScale>>

\* line 54: return u_t
RaceL54(t) ==
    /\ thr[t].pc = "l54"
    /\ thr' = [thr EXCEPT ![t] = [@ EXCEPT !.ret = thr[t].u_t, !.pc = "done"]]
    /\ UNCHANGED <<obj, start, writes, overlap>>
    /\ UNCHANGED <<varsSeq, varsPair, varsScale>>

InitR == IdleSeq /\ IdlePair /\ IdleScale /\ InitRace
NextRace ==
    \E t \in Thread :
        \/ RaceEnter(t)
        \/ RaceL46(t)
        \/ RaceL49(t)
        \/ RaceL52(t)
        \/ RaceL54(t)
SpecRace == InitR /\ [][NextRace]_vars

\* The two calls made one after the other, `first` first: what each
\* returns and the controller they leave.
SeqRun(first) ==
    LET a == Call(start, thr[first].args.r, thr[first].args.y,
                  thr[first].args.dt)
        b == Call(a.self, thr[Peer(first)].args.r, thr[Peer(first)].args.y,
                  thr[Peer(first)].args.dt)
    IN  [ret |-> [t \in Thread |-> IF t = first THEN a.ret ELSE b.ret],
         final |-> b.self]

AllDone == \A t \in Thread : thr[t].pc = "done"
Outputs == [t \in Thread |-> thr[t].ret]

\* Both calls have ended and what they returned is what no order of the
\* two calls returns.
NonSequential ==
    /\ AllDone
    /\ \A first \in Thread : Outputs # SeqRun(first).ret

\* C10: two unsynchronised calls on one controller return what no
\* sequential order of them returns only when both read e_prev at line 46
\* before either wrote it at line 52 (C10_Witness is such a state); calls
\* that do not overlap return, and leave, what one sequential order does.
C10_RaceOnlyWhenReadsPrecedeWrites ==
    /\ NonSequential =>
           /\ overlap
           /\ \A t \in Thread :
                  thr[t].exc = "none" /\ thr[t].sawWrites = 0
    /\ (AllDone /\ ~overlap) =>
           \E first \in Thread :
               /\ Outputs = SeqRun(first).ret
               /\ obj = SeqRun(first).final

\* The race: both calls ended, both read the old e_prev, and the outputs
\* are those of no sequential order.
C10_Witness ==
    /\ NonSequential
    /\ \A t \in Thread : thr[t].sawWrites = 0
    /\ start = New(NoValue, NoValue)

====
